---- MODULE Spec2Model ----
(***************************************************************************)
(* A model of the storage core of vectoria: the on-disk vector store       *)
(* (src/src/db.rs), the byte-range shifter it compacts with                *)
(* (src/src/ext/io.rs) and the wire codecs (src/src/vio).                  *)
(*                                                                         *)
(* The stream is the in-memory cursor the repository's tests use,          *)
(* Cursor<Vec<u8>>: a growable byte vector.  The file is a sequence of     *)
(* bytes; file offsets are counted from 0 as in the source, so the byte at *)
(* offset o is file[o + 1].  A u32 or f32 is carried as the value of its   *)
(* four big-endian bytes; an f32 is its IEEE-754 bit pattern.              *)
(***************************************************************************)
EXTENDS Integers, Sequences, FiniteSets, TLC

\* ----------------------------------------------------------------- bounds
\* Largest dim_size a database is created with.
MaxDim == 2
\* Largest number of records appended to one file (the file never shrinks).
MaxPush == 3
\* Largest number of remove calls that return a vector.
MaxRemove == 1
\* Largest number of records of a store drawn for the lookup specification.
MaxSorted == 4
\* Largest id of a store drawn for the lookup specification.
MaxSortedId == 6
\* the number of concurrent callers of one database
MaxCallers == 2
\* the longest stream handed to move_content, its largest shift and chunk size
MaxStream == 5
MaxShift == 2
MaxBuffer == 3
\* the most nodes of a graph, its largest initial capacity and largest growth
MaxNodes == 3
MaxCapacity == 2
MaxGrow == 2
\* the number of external ids handed to a scattered graph
MaxExternal == 3
\* the most edges of an adjacency list and the largest node id in one
MaxEdges == 2
MaxEdgeNode == 2
\* the most bytes of a layer section between the header and the data section
MaxLayerBytes == 4
\* how far the ids drawn for the id arithmetic lie from 0, 2^31 and u32::MAX
MaxIdOffset == 3

\* ------------------------------------------------------ program constants
\* size_of::<DbIndex>() and size_of::<f32>(), in bytes.
IdSize == 4
F32Size == 4
\* The chunk limit remove passes to move_content.
MaxChunk == 4096
ChunkUnits == 10
\* DbHeader: size_of::<VersionNumber>(), size_of::<DimSize>(),
\* size_of::<DataSection>() and CURRENT_VERSION.
VersionSize == 1
DimSizeSize == 4
DataSectionSize == 8
CURRENT_VERSION == 1

\* PRODUCT = "vectoriadb;version", as its ASCII bytes.
PRODUCT ==
    << 118, 101, 99, 116, 111, 114, 105, 97, 100, 98, 59,
       118, 101, 114, 115, 105, 111, 110 >>

\* f32 values of the model, as bit patterns: 0.0, 1.0 and f32::INFINITY.
F32_ZERO == 0
F32_ONE == 127 * 8388608
F32_INFINITY == 255 * 8388608
Floats == {F32_ZERO, F32_ONE, F32_INFINITY}

\* -------------------------------------------------------------- byteorder
Min(a, b) == IF a < b THEN a ELSE b

\* write_u32::<BigEndian>: the four bytes of w, most significant first.
U32Bytes(w) ==
    << (w \div 16777216) % 256, (w \div 65536) % 256, (w \div 256) % 256, w % 256 >>

\* write_u64::<BigEndian> of a value below 2^32: four zero bytes, then U32Bytes.
U64Bytes(w) == << 0, 0, 0, 0 >> \o U32Bytes(w)

RECURSIVE Flatten(_)
Flatten(ss) == IF ss = << >> THEN << >> ELSE Head(ss) \o Flatten(Tail(ss))

\* vio::vector::write: every component as write_f32::<BigEndian>.
VectorBytes(v) == Flatten([i \in 1..Len(v) |-> U32Bytes(v[i])])

\* ----------------------------------------------------------------- stream
\* Read::read_exact of n bytes at offset off: fails (UnexpectedEof) when fewer
\* than n bytes follow off.
ReadExact(f, off, n) ==
    IF off < 0 \/ off + n > Len(f)
    THEN [ok |-> FALSE, bytes |-> << >>]
    ELSE [ok |-> TRUE, bytes |-> SubSeq(f, off + 1, off + n)]

\* read_u32::<BigEndian> at offset off.
ReadU32(f, off) ==
    IF off < 0 \/ off + 4 > Len(f)
    THEN [ok |-> FALSE, v |-> 0]
    ELSE [ok |-> TRUE,
          v |-> f[off + 1] * 16777216 + f[off + 2] * 65536 + f[off + 3] * 256
                    + f[off + 4]]

\* Write::write of Cursor<Vec<u8>> at offset off: overwrites, zero-fills a gap
\* past the end, and grows the vector.
WriteAt(f, off, bytes) ==
    SubSeq(f, 1, Min(off, Len(f)))
        \o [i \in 1..(off - Len(f)) |-> 0]
        \o bytes
        \o SubSeq(f, off + Len(bytes) + 1, Len(f))

\* ----------------------------------------------------------------- header
\* Display of an unsigned integer, as write!(fd, "{}", n) formats it: its
\* decimal digits in ASCII.
RECURSIVE DecimalAscii(_)
DecimalAscii(n) ==
    IF n < 10 THEN << 48 + n >> ELSE DecimalAscii(n \div 10) \o << 48 + (n % 10) >>

\* DbHeader::new(dim_size).
DbHeaderNew(dim) ==
    [version |-> CURRENT_VERSION,
     dim_size |-> dim,
     data_section |-> Len(PRODUCT) + VersionSize + DimSizeSize + DataSectionSize]

\* DbHeader::write: the product tag and the version through write!, then
\* data_section as u64 and dim_size as u32.
DbHeaderWrite(hd) ==
    PRODUCT \o DecimalAscii(hd.version) \o U64Bytes(hd.data_section)
        \o U32Bytes(hd.dim_size)

\* ----------------------------------------------------------- VectorHandle
\* Results are [kind, val]: kind "some" carries a value in val (an offset, an
\* id or a vector), "none" is Ok(None); "io", "parse" and "dimension" are the
\* Err variants (dimension carries <<expected, actual>>); "panic" is a panic
\* and "hang" a loop that never returns.
Res(k, v) == [kind |-> k, val |-> v]

\* VectorHandle::unit_size_bytes.
UnitSizeBytes(h) == h.dim_size * F32Size + IdSize

\* VectorHandle::seek_count: seek(End(0)) is the stream's length.
SeekCount(h, f) == (Len(f) + 1 - h.data_section) \div UnitSizeBytes(h)

\* (head_id + tail_id) / 2 in u32.  Every u32 the model reads is below 2^31,
\* so the sum does not wrap; it is computed from the halves.
MidId(a, b) == (a \div 2) + (b \div 2) + (((a % 2) + (b % 2)) \div 2)

\* The loop of VectorHandle::seek_item from the state (head, tail).  The loop
\* changes nothing but head and tail, so an iteration that leaves both as they
\* were repeats forever: "hang".
RECURSIVE SeekLoop(_, _, _, _, _)
SeekLoop(h, f, id, head, tail) ==
    LET unit == UnitSizeBytes(h)
        hr == ReadU32(f, head * unit + h.data_section)
        tr == ReadU32(f, tail * unit + h.data_section)
        mid == ((tail - head) \div 2) + head
        lower == id < MidId(hr.v, tr.v)
        nhead == IF lower THEN head ELSE mid
        ntail == IF lower THEN mid ELSE tail
    IN  IF ~hr.ok THEN Res("io", << >>)
        ELSE IF hr.v = id THEN Res("some", << head * unit + h.data_section >>)
        ELSE IF head = tail THEN Res("none", << >>)
        ELSE IF ~tr.ok THEN Res("io", << >>)
        ELSE IF tr.v = id THEN Res("some", << tail * unit + h.data_section >>)
        ELSE IF hr.v > tr.v THEN Res("panic", << >>)
        ELSE IF nhead = head /\ ntail = tail THEN Res("hang", << >>)
        ELSE SeekLoop(h, f, id, nhead, ntail)

\* VectorHandle::seek_item.  tail = seek_count()? - 1 is a u64 subtraction: on
\* an empty store it panics with overflow checks and wraps to u64::MAX
\* without, and then the read of the id at head, at the end of the stream,
\* fails.
SeekItem(h, f, id, checks) ==
    IF SeekCount(h, f) = 0
    THEN IF checks THEN Res("panic", << >>)
         ELSE IF ReadU32(f, h.data_section).ok
                 /\ ReadU32(f, h.data_section).v = id
              THEN Res("some", << h.data_section >>)
              ELSE Res("io", << >>)
    ELSE SeekLoop(h, f, id, 0, SeekCount(h, f) - 1)

\* vio::vector::read of dim components at offset off: Err(IO) on a short
\* read, Err(EOF) ("eof") at the first component equal to f32::INFINITY.
RECURSIVE VectorReadFrom(_, _, _, _)
VectorReadFrom(f, off, dim, acc) ==
    IF Len(acc) = dim THEN Res("some", acc)
    ELSE LET c == ReadU32(f, off + F32Size * Len(acc))
         IN  IF ~c.ok THEN Res("io", << >>)
             ELSE IF c.v = F32_INFINITY THEN Res("eof", << >>)
             ELSE VectorReadFrom(f, off, dim, Append(acc, c.v))

VectorRead(f, off, dim) == VectorReadFrom(f, off, dim, << >>)

\* VectorHandle::get: the stream stands after the id that seek_item read.
HandleGet(h, f, id, checks) ==
    LET s == SeekItem(h, f, id, checks)
        v == VectorRead(f, s.val[1] + IdSize, h.dim_size)
    IN  IF s.kind # "some" THEN s
        ELSE IF v.kind = "eof" THEN Res("io", << >>)
        ELSE v

\* VectorHandle::seek_last_id: seek(End(-unit)) fails before offset 0.
SeekLastId(h, f) ==
    LET pos == Len(f) - UnitSizeBytes(h)
        r == ReadU32(f, pos)
    IN  IF pos < 0 \/ pos < h.data_section \/ ~r.ok
        THEN Res("none", << >>)
        ELSE Res("some", << r.v >>)

\* HandlePush with the length checked after the record is written.
HandlePushLateCheck(h, f, vector) ==
    LET last == SeekLastId(h, f)
        new_id == IF last.kind = "none" THEN 0 ELSE last.val[1] + 1
        written == WriteAt(f, Len(f), U32Bytes(new_id) \o VectorBytes(vector))
    IN  IF Len(vector) # h.dim_size
        THEN [res |-> Res("dimension", << h.dim_size, Len(vector) >>), file |-> written]
        ELSE [res |-> Res("some", << new_id >>), file |-> written]

\* VectorHandle::push: [res, file].
HandlePush(h, f, vector) ==
    LET last == SeekLastId(h, f)
        new_id == IF last.kind = "none" THEN 0 ELSE last.val[1] + 1
    IN  IF Len(vector) # h.dim_size
        THEN [res |-> Res("dimension", << h.dim_size, Len(vector) >>), file |-> f]
        ELSE [res |-> Res("some", << new_id >>),
              file |-> WriteAt(f, Len(f), U32Bytes(new_id) \o VectorBytes(vector))]

\* ------------------------------------------------------------- MoveContent
\* Results are [kind, file, pos]: "ok", or "io" (an Err of a seek or a read),
\* "panic", or "hang" (a loop that never ends); pos is the stream position.
Moved(k, f, p) == [kind |-> k, file |-> f, pos |-> p]

\* cut_and_paste_backward from stream position cur.  Each round reads a chunk
\* at cur, which leaves the stream after the chunk, seeks back by offset from
\* there, and writes the chunk; the next round reads on from after the write.
RECURSIVE CutAndPasteBackward(_, _, _, _, _)
CutAndPasteBackward(f, cur, remaining, offset, buffer_len) ==
    LET read == IF remaining > buffer_len THEN buffer_len ELSE remaining
        r == ReadExact(f, cur, read)
        dst == cur + read - offset
        f2 == WriteAt(f, dst, r.bytes)
    IN  IF ~r.ok THEN Moved("io", f, cur)
        ELSE IF dst < 0 THEN Moved("io", f, cur + read)
        ELSE IF remaining - read <= 0 THEN Moved("ok", f2, dst + read)
        ELSE IF read = 0 THEN Moved("hang", f, cur)
        ELSE CutAndPasteBackward(f2, dst + read, remaining - read, offset, buffer_len)

\* cut_and_paste_forward, begun at stream position begin, from position cur.
\* seek(Current(remaining))? - buffer_size is a u64 subtraction: below zero it
\* panics with overflow checks; without, it wraps, the comparison with begin
\* fails and seek_relative(-buffer_size) is a seek before offset 0.
RECURSIVE CutAndPasteForward(_, _, _, _, _, _, _)
CutAndPasteForward(f, begin, cur, remaining, offset, buffer_size, checks) ==
    LET end == cur + remaining
        whole == end - buffer_size < begin
        src == IF whole THEN begin ELSE end - buffer_size
        read == IF whole THEN remaining ELSE buffer_size
        r == ReadExact(f, src, read)
        dst == src + read + offset
        f2 == WriteAt(f, dst, r.bytes)
        back == dst + read - (offset + buffer_size)
    IN  IF end < buffer_size
        THEN IF checks THEN Moved("panic", f, end) ELSE Moved("io", f, end)
        ELSE IF ~r.ok THEN Moved("io", f, src)
        ELSE IF remaining - read <= 0 THEN Moved("ok", f2, dst + read)
        ELSE IF read = 0 THEN Moved("hang", f, src)
        ELSE IF back < 0 THEN Moved("io", f2, dst + read)
        ELSE CutAndPasteForward(f2, begin, back, remaining - read, offset,
                                buffer_size, checks)

\* MoveContent::move_content at stream position cur.
MoveContent(f, cur, content_len, offset, buffer_size, checks) ==
    IF offset >= 0
    THEN CutAndPasteForward(f, cur, cur, content_len, offset, buffer_size, checks)
    ELSE CutAndPasteBackward(f, cur, content_len, -offset, buffer_size)

\* VectorHandle::remove: [res, file].
HandleRemove(h, f, id, checks) ==
    LET s == SeekItem(h, f, id, checks)
        v == VectorRead(f, s.val[1] + IdSize, h.dim_size)
        available == Len(f)
        offset == UnitSizeBytes(h)
        pos == s.val[1] - IdSize
        m == MoveContent(f, pos, available - pos - offset, -offset,
                         Min(MaxChunk, ChunkUnits * offset), checks)
    IN  IF s.kind # "some" THEN [res |-> s, file |-> f]
        ELSE IF v.kind = "eof" THEN [res |-> Res("parse", << >>), file |-> f]
        ELSE IF v.kind # "some" THEN [res |-> v, file |-> f]
        ELSE IF m.kind # "ok" THEN [res |-> Res(m.kind, << >>), file |-> m.file]
        ELSE [res |-> v, file |-> m.file]

\* VectorHandle::count.
HandleCount(h, f) == SeekCount(h, f)

\* ---------------------------------------------------------------- Database
\* HashMap::insert and HashMap::remove on loaded_vectors.
CacheInsert(c, id, v) == [j \in DOMAIN c \cup {id} |-> IF j = id THEN v ELSE c[j]]
CacheRemove(c, id) == [j \in DOMAIN c \ {id} |-> c[j]]

\* Database::get: [res, cache].
DbGet(h, f, c, id, checks) ==
    LET r == HandleGet(h, f, id, checks)
    IN  IF id \in DOMAIN c THEN [res |-> Res("some", c[id]), cache |-> c]
        ELSE IF r.kind = "some" THEN [res |-> r, cache |-> CacheInsert(c, id, r.val)]
        ELSE [res |-> r, cache |-> c]

\* DbPush without the insertion into the cache.
DbPushNoCache(h, f, c, vector) ==
    LET r == HandlePush(h, f, vector)
    IN  [res |-> r.res, file |-> r.file, cache |-> c]

\* Database::push: [res, file, cache].
DbPush(h, f, c, vector) ==
    LET r == HandlePush(h, f, vector)
    IN  IF r.res.kind = "some"
        THEN [res |-> r.res, file |-> r.file,
              cache |-> CacheInsert(c, r.res.val[1], vector)]
        ELSE [res |-> r.res, file |-> r.file, cache |-> c]

\* Database::remove: [res, file, cache].
DbRemove(h, f, c, id, checks) ==
    LET r == HandleRemove(h, f, id, checks)
    IN  IF r.res.kind = "some"
        THEN [res |-> r.res, file |-> r.file, cache |-> CacheRemove(c, id)]
        ELSE [res |-> r.res, file |-> r.file, cache |-> c]

\* ------------------------------------------------------------------ NdGraph
\* A node id handed to a graph is a u32, kept as its two 16-bit halves
\* << high, low >> so that the largest u32 is a value of the model.
U16 == 65536
U32Of(n) == << n \div U16, n % U16 >>
U32_MAX == << U16 - 1, U16 - 1 >>
U32Lt(x, y) == x[1] < y[1] \/ (x[1] = y[1] /\ x[2] < y[2])
U32Ge(x, y) == ~U32Lt(x, y)
\* The number of a u32 below 2^31.
U32Nat(x) == x[1] * U16 + x[2]
\* x + 1 in a build without overflow checks: it wraps.
U32Inc(x) ==
    IF x = U32_MAX THEN << 0, 0 >>
    ELSE IF x[2] = U16 - 1 THEN << x[1] + 1, 0 >> ELSE << x[1], x[2] + 1 >>
U32MaxOf(x, y) == IF U32Lt(x, y) THEN y ELSE x

\* NdGraph::with_capacity: row r (from 0) holds r + 1 cells.
NdWithCapacity(capacity) ==
    [len |-> 0, capacity |-> capacity,
     adjacent_matrix |-> [row \in 1..capacity |-> [col \in 1..row |-> F32_INFINITY]]]

\* NdGraph::from_adj_list of a sequence of edges << a, b, distance >>: len is
\* the largest node id of the list (0 for an empty list), the matrix has len
\* rows, and a cell holds the distance of the first edge of the list on its
\* pair.
NdFromAdjList(adj_list) ==
    LET nodes == {adj_list[i][1] : i \in DOMAIN adj_list}
                    \cup {adj_list[i][2] : i \in DOMAIN adj_list}
        len == IF nodes = {} THEN 0 ELSE CHOOSE n \in nodes : \A k \in nodes : k <= n
        found(row, col) ==
            {i \in DOMAIN adj_list :
                \/ adj_list[i][1] = row /\ adj_list[i][2] = col
                \/ adj_list[i][1] = col /\ adj_list[i][2] = row}
        cell(row, col) ==
            IF found(row, col) = {} THEN F32_INFINITY
            ELSE adj_list[CHOOSE i \in found(row, col) :
                             \A j \in found(row, col) : i <= j][3]
    IN  [len |-> len, capacity |-> len,
         adjacent_matrix |-> [row \in 1..len |-> [col \in 1..row |-> cell(row - 1, col - 1)]]]

\* NdgError::ExceedBoundary(max(a, b) + 1, len), or the panic of the addition
\* in a build with overflow checks.
ExceedBoundary(g, a, b, checks) ==
    IF checks /\ U32MaxOf(a, b) = U32_MAX THEN Res("panic", << >>)
    ELSE Res("exceed", << U32Inc(U32MaxOf(a, b)), g.len >>)

\* The cell adjacent_matrix[a][b] exists (a, b from 0); indexing it panics
\* otherwise.
HasCell(g, a, b) ==
    /\ a + 1 <= Len(g.adjacent_matrix)
    /\ b + 1 <= Len(g.adjacent_matrix[a + 1])

\* NdGraph::connect: [res, graph].
NdConnect(g, a, b, distance, checks) ==
    LET hi == IF U32Lt(b, a) THEN U32Nat(a) ELSE U32Nat(b)
        lo == IF U32Lt(b, a) THEN U32Nat(b) ELSE U32Nat(a)
    IN  IF U32Ge(a, U32Of(g.len)) \/ U32Ge(b, U32Of(g.len))
        THEN [res |-> ExceedBoundary(g, a, b, checks), graph |-> g]
        ELSE IF ~HasCell(g, hi, lo) THEN [res |-> Res("panic", << >>), graph |-> g]
        ELSE [res |-> Res("ok", << >>),
              graph |-> [g EXCEPT !.adjacent_matrix[hi + 1][lo + 1] = distance]]

\* NdGraph::get_neighbors: the columns of the row of query_node that hold a
\* distance below infinity.
NdGetNeighbors(g, query_node) ==
    IF U32Ge(query_node, U32Of(g.len)) THEN Res("some", {})
    ELSE LET row == g.adjacent_matrix[U32Nat(query_node) + 1]
         IN  Res("some", {node \in 0..(Len(row) - 1) : row[node + 1] < F32_INFINITY})

\* NdGraph::get_vertices: the cells [query_node][n] for every n below len.
NdGetVertices(g, query_node) ==
    LET q == U32Nat(query_node)
    IN  IF U32Ge(query_node, U32Of(g.len)) THEN Res("some", {})
        ELSE IF \E n \in 0..(g.len - 1) : ~HasCell(g, q, n) THEN Res("panic", << >>)
        ELSE Res("some", {<< n, g.adjacent_matrix[q + 1][n + 1] >> :
                            n \in {m \in 0..(g.len - 1) :
                                      g.adjacent_matrix[q + 1][m + 1] < F32_INFINITY}})

\* NdGraph::get_vertice.
NdGetVertice(g, a, b, checks) ==
    LET hi == IF U32Lt(b, a) THEN U32Nat(a) ELSE U32Nat(b)
        lo == IF U32Lt(b, a) THEN U32Nat(b) ELSE U32Nat(a)
    IN  IF U32Ge(a, U32Of(g.len)) \/ U32Ge(b, U32Of(g.len))
        THEN ExceedBoundary(g, a, b, checks)
        ELSE IF ~HasCell(g, hi, lo) THEN Res("panic", << >>)
        ELSE IF g.adjacent_matrix[hi + 1][lo + 1] < F32_INFINITY
             THEN Res("some", << g.adjacent_matrix[hi + 1][lo + 1] >>)
             ELSE Res("none", << >>)

\* NdPushMany with an amortised growth: a short capacity is doubled.
NdPushManyDoubling(g, count) ==
    LET short == g.capacity < g.len + count
        target == 2 * (g.len + count)
        g2 == [len |-> g.len + count,
               capacity |-> IF short THEN target ELSE g.capacity,
               adjacent_matrix |->
                   IF short
                   THEN g.adjacent_matrix
                          \o [row \in 1..target |-> [col \in 1..(row - 1) |-> F32_INFINITY]]
                   ELSE g.adjacent_matrix]
    IN  [res |-> Res("some", << g2.len - 1 >>), graph |-> g2]

\* NdGraph::push_many: [res, graph].  When the capacity is short it appends
\* lacking + capacity rows, the row numbered row (from 0) holding row cells.
NdPushMany(g, count) ==
    LET short == g.capacity < g.len + count
        lacking == g.len + count - g.capacity
        rows == [row \in 1..(lacking + g.capacity) |->
                    [col \in 1..(row - 1) |-> F32_INFINITY]]
        g2 == [len |-> g.len + count,
               capacity |-> IF short THEN g.capacity + lacking ELSE g.capacity,
               adjacent_matrix |-> IF short THEN g.adjacent_matrix \o rows
                                   ELSE g.adjacent_matrix]
    IN  [res |-> Res("some", << g2.len - 1 >>), graph |-> g2]

\* NdGraph::push_one.
NdPushOne(g) == NdPushMany(g, 1)

\* ----------------------------------------------------------- AnyCastNdGraph
\* AnyCastNdGraph::with_capacity: [graph, mapping].
AcWithCapacity(capacity) ==
    [graph |-> NdWithCapacity(capacity), mapping |-> [x \in {} |-> 0]]

\* AcGetMappingOrInsert without the lookup: every use of an id adds a node.
AcGetMappingAlwaysInsert(g, m, node) ==
    LET r == NdPushOne(g)
        pushed_id == r.res.val[1]
    IN  [graph |-> r.graph,
         mapping |-> [x \in DOMAIN m \cup {node} |->
                         IF x = node THEN pushed_id ELSE m[x]],
         dense |-> pushed_id]

\* AnyCastNdGraph::get_mapping_or_insert: [graph, mapping, dense].
AcGetMappingOrInsert(g, m, node) ==
    LET r == NdPushOne(g)
        pushed_id == r.res.val[1]
    IN  IF node \in DOMAIN m THEN [graph |-> g, mapping |-> m, dense |-> m[node]]
        ELSE [graph |-> r.graph,
              mapping |-> [x \in DOMAIN m \cup {node} |->
                              IF x = node THEN pushed_id ELSE m[x]],
              dense |-> pushed_id]

\* AnyCastNdGraph::connect: [res, graph, mapping]; the unwrap panics on an Err.
AcConnect(g, m, a, b, distance) ==
    LET ma == AcGetMappingOrInsert(g, m, a)
        mb == AcGetMappingOrInsert(ma.graph, ma.mapping, b)
        c == NdConnect(mb.graph, U32Of(ma.dense), U32Of(mb.dense), distance, TRUE)
    IN  [res |-> IF c.res.kind = "ok" THEN c.res ELSE Res("panic", << >>),
         graph |-> c.graph, mapping |-> mb.mapping]

\* AnyCastNdGraph::get_neighbors.
AcGetNeighbors(g, m, query_node) ==
    IF query_node \notin DOMAIN m THEN Res("some", {})
    ELSE NdGetNeighbors(g, U32Of(m[query_node]))

\* AnyCastNdGraph::get_vertices.
AcGetVertices(g, m, query_node) ==
    IF query_node \notin DOMAIN m THEN Res("some", {})
    ELSE NdGetVertices(g, U32Of(m[query_node]))

\* AcGetVertice answering for an absent id as the neighbor queries do: with
\* an empty result.
AcGetVerticeSilent(g, m, a, b) ==
    LET r == NdGetVertice(g, U32Of(m[a]), U32Of(m[b]), TRUE)
    IN  IF a \notin DOMAIN m \/ b \notin DOMAIN m THEN Res("none", << >>)
        ELSE IF r.kind = "exceed" THEN Res("panic", << >>)
        ELSE r

\* AnyCastNdGraph::get_vertice; the unwrap panics on an Err.
AcGetVertice(g, m, a, b) ==
    LET r == NdGetVertice(g, U32Of(m[a]), U32Of(m[b]), TRUE)
    IN  IF a \notin DOMAIN m THEN Res("nonexistence", << a >>)
        ELSE IF b \notin DOMAIN m THEN Res("nonexistence", << b >>)
        ELSE IF r.kind = "exceed" THEN Res("panic", << >>)
        ELSE r

\* -------------------------------------------------------------------- state
VARIABLES
    handle,           \* VectorHandle: [dim_size, data_section]
    file,             \* the bytes of handle.fd
    cache,            \* Database::loaded_vectors: id -> vector
    last,             \* the last call: [op, arg, res]
    pushed,           \* the ids returned by the successful push calls, in order
    removes,          \* the number of remove calls that returned a vector
    graph,            \* NdGraph: [len, capacity, adjacent_matrix]
    mapping,          \* AnyCastNdGraph::mapping: external id -> dense id
    connected,        \* the external ids handed to AnyCastNdGraph::connect so far
    callers,          \* the callers of one Database: caller -> [op, arg, pc, res]
    locks             \* the mutexes Database::handle and ::loaded_vectors:
                      \* [owner, poisoned]

vars == << handle, file, cache, last, pushed, removes, graph, mapping, connected,
          callers, locks >>

\* The parts of the state that the calls on one database made by one caller
\* leave alone: the proximity graph, and the callers and the locks.
graphvars == << graph, mapping, connected >>
lockvars == << callers, locks >>
storevars == << handle, file, cache, pushed, removes >>

DimSizes == 1..MaxDim

\* The ids of the records of the data section, in file order.
StoredIds(h, f) ==
    [k \in 1..SeekCount(h, f) |->
        ReadU32(f, h.data_section + (k - 1) * UnitSizeBytes(h)).v]

\* The vector bytes of the record at index k (from 1), as f32 bit patterns.
StoredVector(h, f, k) ==
    [i \in 1..h.dim_size |->
        ReadU32(f, h.data_section + (k - 1) * UnitSizeBytes(h) + IdSize
                     + (i - 1) * F32Size).v]

Range(s) == {s[i] : i \in DOMAIN s}

\* Vectors handed to push: of the right length, and of a wrong one.
Vectors(dim) == {[i \in 1..dim |-> x] : x \in Floats}
BadVectors(dim) == {[i \in 1..n |-> F32_ONE] : n \in (0..(dim + 1)) \ {dim}}

\* Ids handed to get and remove: small ones, pushed or not, and every id that
\* push has returned.
IdInputs == (0..MaxPush) \cup Range(pushed)

\* NdGraph::new() and an empty mapping: AnyCastNdGraph::new().
NdGraphNew == [len |-> 0, capacity |-> 0, adjacent_matrix |-> << >>]
GraphNew ==
    /\ graph = NdGraphNew
    /\ mapping = [x \in {} |-> 0]
    /\ connected = {}

\* A database that nobody is calling: both mutexes are free.
Callers == 1..MaxCallers
Idle == [op |-> "none", arg |-> << >>, pc |-> 0, res |-> Res("none", << >>)]
\* Mutex::new: no owner (0), not poisoned.
Free == [owner |-> 0, poisoned |-> FALSE]
NoCallers ==
    /\ callers = [t \in Callers |-> Idle]
    /\ locks = [handle |-> Free, loaded_vectors |-> Free]

\* Database::new(name, dim_size, fd) on an empty stream.
Init ==
    /\ \E dim \in DimSizes :
          /\ handle = [dim_size |-> DbHeaderNew(dim).dim_size,
                       data_section |-> DbHeaderNew(dim).data_section]
          /\ file = WriteAt(<< >>, 0, DbHeaderWrite(DbHeaderNew(dim)))
          /\ last = [op |-> "new", arg |-> << dim >>, res |-> Res("some", << >>)]
    /\ cache = [j \in {} |-> << >>]
    /\ pushed = << >>
    /\ removes = 0
    /\ GraphNew
    /\ NoCallers

\* A call that has not returned keeps the caller.
Returned == last.res.kind # "hang"

\* db.push(vector)
Push(vector) ==
    LET r == DbPush(handle, file, cache, vector)
    IN  /\ Returned
        /\ Len(vector) = handle.dim_size => SeekCount(handle, file) < MaxPush
        /\ file' = r.file
        /\ cache' = r.cache
        /\ last' = [op |-> "push", arg |-> vector, res |-> r.res]
        /\ pushed' = IF r.res.kind = "some" THEN Append(pushed, r.res.val[1]) ELSE pushed
        /\ UNCHANGED << handle, removes, graphvars, lockvars >>

\* db.get(id); checks is whether the build panics on integer overflow.
Get(id, checks) ==
    LET r == DbGet(handle, file, cache, id, checks)
    IN  /\ Returned
        /\ cache' = r.cache
        /\ last' = [op |-> "get", arg |-> << id >>, res |-> r.res]
        /\ UNCHANGED << handle, file, pushed, removes, graphvars, lockvars >>

\* db.remove(id); checks as for get.
Remove(id, checks) ==
    LET r == DbRemove(handle, file, cache, id, checks)
    IN  /\ Returned
        /\ r.res.kind = "some" => removes < MaxRemove
        /\ file' = r.file
        /\ cache' = r.cache
        /\ last' = [op |-> "remove", arg |-> << id >>, res |-> r.res]
        /\ removes' = IF r.res.kind = "some" THEN removes + 1 ELSE removes
        /\ UNCHANGED << handle, pushed, graphvars, lockvars >>

\* The builds that differ on the store as it is: get and remove overflow only
\* in seek_count()? - 1 on an empty store, so on any other store both builds
\* do the same and one stands for both.
Builds == IF SeekCount(handle, file) = 0 THEN BOOLEAN ELSE {TRUE}

Next ==
    \/ \E vector \in Vectors(handle.dim_size) \cup BadVectors(handle.dim_size) :
          Push(vector)
    \/ \E id \in IdInputs, checks \in Builds : Get(id, checks)
    \/ \E id \in IdInputs, checks \in Builds : Remove(id, checks)

Spec == Init /\ [][Next]_vars

\* ---------------------------------------------------- the lookup on a store
\* The specification of lookups alone: a database over a file whose data
\* section holds records in strictly ascending id order, contiguous or with
\* gaps, as a sequence of push and remove calls is specified to leave it and
\* as Database::read opens it; the calls are get.
SortedIdSets ==
    {S \in SUBSET (0..MaxSortedId) : Cardinality(S) <= MaxSorted}

\* The elements of a set of numbers, ascending.
RECURSIVE Ascending(_)
Ascending(S) ==
    IF S = {} THEN << >>
    ELSE LET m == CHOOSE x \in S : \A y \in S : x <= y
         IN  << m >> \o Ascending(S \ {m})

\* The vector stored with id: every component the f32 whose bits are those of
\* 1.0 plus id, so that no two ids share a vector.
VectorFor(id, dim) == [i \in 1..dim |-> F32_ONE + id]

\* The records of ids, as push lays a record out: the id, then the vector.
RecordBytes(ids, dim) ==
    Flatten([k \in 1..Len(ids) |->
                U32Bytes(ids[k]) \o VectorBytes(VectorFor(ids[k], dim))])

InitLookup ==
    /\ \E dim \in DimSizes, S \in SortedIdSets :
          /\ handle = [dim_size |-> DbHeaderNew(dim).dim_size,
                       data_section |-> DbHeaderNew(dim).data_section]
          /\ file = WriteAt(DbHeaderWrite(DbHeaderNew(dim)),
                            DbHeaderNew(dim).data_section,
                            RecordBytes(Ascending(S), dim))
          /\ last = [op |-> "new", arg |-> << dim >>, res |-> Res("some", << >>)]
          /\ pushed = Ascending(S)
    /\ cache = [j \in {} |-> << >>]
    /\ removes = 0
    /\ GraphNew
    /\ NoCallers

\* Ids handed to get: every id a store may hold, and one above them all.
LookupIds == 0..(MaxSortedId + 1)

NextLookup == \E id \in LookupIds, checks \in Builds : Get(id, checks)

SpecLookup == InitLookup /\ [][NextLookup]_vars

\* ------------------------------------------------- move_content on a stream
\* The specification of move_content alone: a stream of up to MaxStream bytes,
\* each byte its own offset plus one so that no two are alike, on which
\* move_content is called once, at any position of the stream.
Streams == {[i \in 1..n |-> i] : n \in 0..MaxStream}

InitMove ==
    /\ \E f \in Streams :
          /\ file = f
          /\ last = [op |-> "open", arg |-> << Len(f) >>, res |-> Res("some", << >>)]
    /\ handle = [dim_size |-> DbHeaderNew(1).dim_size,
                 data_section |-> DbHeaderNew(1).data_section]
    /\ cache = [j \in {} |-> << >>]
    /\ pushed = << >>
    /\ removes = 0
    /\ GraphNew
    /\ NoCallers

\* fd.seek(Start(p)) and then fd.move_content(content_len, offset, buffer_size).
Move(p, content_len, offset, buffer_size, checks) ==
    LET m == MoveContent(file, p, content_len, offset, buffer_size, checks)
    IN  /\ last.op = "open"
        /\ file' = m.file
        /\ last' = [op |-> "move_content",
                    arg |-> << p, content_len, offset, buffer_size >>,
                    res |-> Res(m.kind, << m.pos >>)]
        /\ UNCHANGED << handle, cache, pushed, removes, graphvars, lockvars >>

NextMove ==
    \E p \in 0..Len(file), content_len \in 0..MaxStream,
       offset \in (-MaxShift)..MaxShift, buffer_size \in 1..MaxBuffer,
       checks \in BOOLEAN :
        Move(p, content_len, offset, buffer_size, checks)

SpecMove == InitMove /\ [][NextMove]_vars

\* ------------------------------------------------------ the proximity graph
\* The state of the store while only a graph is in use: Database::new(1).
StoreNew ==
    /\ handle = [dim_size |-> DbHeaderNew(1).dim_size,
                 data_section |-> DbHeaderNew(1).data_section]
    /\ file = WriteAt(<< >>, 0, DbHeaderWrite(DbHeaderNew(1)))
    /\ cache = [j \in {} |-> << >>]
    /\ pushed = << >>
    /\ removes = 0

\* NdGraph::new() or NdGraph::with_capacity(capacity).
InitGraph ==
    /\ \E capacity \in 0..MaxCapacity :
          /\ graph = IF capacity = 0 THEN NdGraphNew ELSE NdWithCapacity(capacity)
          /\ last = [op |-> "with_capacity", arg |-> << capacity >>,
                     res |-> Res("ok", << >>)]
    /\ mapping = [x \in {} |-> 0]
    /\ connected = {}
    /\ StoreNew
    /\ NoCallers

\* The node ids handed to a graph: the small ones, below len or not, and the
\* largest u32.  The distances: 0.0, 1.0 and the sentinel.
NodeArgs == {U32Of(n) : n \in 0..MaxNodes} \cup {U32_MAX}
Distances == Floats
\* The builds that differ on a call: only max(a, b) + 1 can overflow.
GraphBuilds(a, b) == IF U32_MAX \in {a, b} THEN BOOLEAN ELSE {TRUE}

\* graph.push_many(count)
Grow(count) ==
    LET r == NdPushMany(graph, count)
    IN  /\ graph.len + count <= MaxNodes
        /\ graph' = r.graph
        /\ last' = [op |-> "push_many", arg |-> << count >>, res |-> r.res]
        /\ UNCHANGED << storevars, mapping, connected, lockvars >>

\* graph.connect(a, b, distance)
Connect(a, b, distance, checks) ==
    LET r == NdConnect(graph, a, b, distance, checks)
    IN  /\ graph' = r.graph
        /\ last' = [op |-> "connect", arg |-> << a, b, distance >>, res |-> r.res]
        /\ UNCHANGED << storevars, mapping, connected, lockvars >>

\* graph.get_vertice(a, b)
Distance(a, b, checks) ==
    /\ last' = [op |-> "get_vertice", arg |-> << a, b >>,
                res |-> NdGetVertice(graph, a, b, checks)]
    /\ UNCHANGED << storevars, graphvars, lockvars >>

\* graph.get_neighbors(query_node)
Neighbors(query_node) ==
    /\ last' = [op |-> "get_neighbors", arg |-> << query_node >>,
                res |-> NdGetNeighbors(graph, query_node)]
    /\ UNCHANGED << storevars, graphvars, lockvars >>

\* graph.get_vertices(query_node)
WeightedNeighbors(query_node) ==
    /\ last' = [op |-> "get_vertices", arg |-> << query_node >>,
                res |-> NdGetVertices(graph, query_node)]
    /\ UNCHANGED << storevars, graphvars, lockvars >>

NextGraph ==
    \/ \E count \in 1..MaxGrow : Grow(count)
    \/ \E a \in NodeArgs, b \in NodeArgs, distance \in Distances :
          \E checks \in GraphBuilds(a, b) : Connect(a, b, distance, checks)
    \/ \E a \in NodeArgs, b \in NodeArgs :
          \E checks \in GraphBuilds(a, b) : Distance(a, b, checks)
    \/ \E query_node \in NodeArgs : Neighbors(query_node)
    \/ \E query_node \in NodeArgs : WeightedNeighbors(query_node)

SpecGraph == InitGraph /\ [][NextGraph]_vars

\* ------------------------------------------- a graph from an adjacency list
\* The edge lists handed to from_adj_list: up to MaxEdges edges between the
\* nodes 0 .. MaxEdgeNode, with a distance below infinity.
Edges == {<< a, b, d >> : a \in 0..MaxEdgeNode, b \in 0..MaxEdgeNode,
                         d \in Distances \ {F32_INFINITY}}
RECURSIVE EdgeLists(_)
EdgeLists(n) ==
    IF n = 0 THEN {<< >>}
    ELSE EdgeLists(n - 1)
           \cup {Append(l, e) : l \in {k \in EdgeLists(n - 1) : Len(k) = n - 1}, e \in Edges}

\* NdGraph::from_adj_list(adj_list).
InitAdj ==
    /\ \E adj_list \in EdgeLists(MaxEdges) :
          /\ graph = NdFromAdjList(adj_list)
          /\ last = [op |-> "from_adj_list", arg |-> adj_list, res |-> Res("ok", << >>)]
    /\ mapping = [x \in {} |-> 0]
    /\ connected = {}
    /\ StoreNew
    /\ NoCallers

\* The queries of the graph that was built.
NextAdj ==
    \/ \E a \in NodeArgs, b \in NodeArgs :
          \E checks \in GraphBuilds(a, b) : Distance(a, b, checks)
    \/ \E query_node \in NodeArgs : Neighbors(query_node)
    \/ \E query_node \in NodeArgs : WeightedNeighbors(query_node)

SpecAdj == InitAdj /\ [][NextAdj]_vars

\* -------------------------------------------- the scattered proximity graph
\* AnyCastNdGraph::new() or AnyCastNdGraph::with_capacity(capacity).
InitScattered ==
    /\ \E capacity \in 0..MaxCapacity :
          /\ graph = IF capacity = 0 THEN NdGraphNew ELSE AcWithCapacity(capacity).graph
          /\ mapping = AcWithCapacity(capacity).mapping
          /\ last = [op |-> "with_capacity", arg |-> << capacity >>,
                     res |-> Res("ok", << >>)]
    /\ connected = {}
    /\ StoreNew
    /\ NoCallers

\* The external ids handed to a scattered graph: 36, 69, ... as in the tests,
\* neither dense nor starting at 0.
ExternalIds == {33 * i + 3 : i \in 1..MaxExternal}

\* graph.connect(a, b, distance) on the scattered graph
ScConnect(a, b, distance) ==
    LET r == AcConnect(graph, mapping, a, b, distance)
    IN  /\ graph' = r.graph
        /\ mapping' = r.mapping
        /\ connected' = connected \cup {a, b}
        /\ last' = [op |-> "connect", arg |-> << a, b, distance >>, res |-> r.res]
        /\ UNCHANGED << storevars, lockvars >>

\* graph.get_vertice(a, b) on the scattered graph
ScDistance(a, b) ==
    /\ last' = [op |-> "get_vertice", arg |-> << a, b >>,
                res |-> AcGetVertice(graph, mapping, a, b)]
    /\ UNCHANGED << storevars, graphvars, lockvars >>

\* graph.get_neighbors(query_node) on the scattered graph
ScNeighbors(query_node) ==
    /\ last' = [op |-> "get_neighbors", arg |-> << query_node >>,
                res |-> AcGetNeighbors(graph, mapping, query_node)]
    /\ UNCHANGED << storevars, graphvars, lockvars >>

\* graph.get_vertices(query_node) on the scattered graph
ScWeightedNeighbors(query_node) ==
    /\ last' = [op |-> "get_vertices", arg |-> << query_node >>,
                res |-> AcGetVertices(graph, mapping, query_node)]
    /\ UNCHANGED << storevars, graphvars, lockvars >>

NextScattered ==
    \/ \E a \in ExternalIds, b \in ExternalIds, distance \in Distances :
          ScConnect(a, b, distance)
    \/ \E a \in ExternalIds, b \in ExternalIds : ScDistance(a, b)
    \/ \E query_node \in ExternalIds : ScNeighbors(query_node)
    \/ \E query_node \in ExternalIds : ScWeightedNeighbors(query_node)

SpecScattered == InitScattered /\ [][NextScattered]_vars

\* --------------------------------------------------- the header round trip
\* read_u64::<BigEndian> at offset off, as its two 32-bit halves << high, low >>.
ReadU64(f, off) ==
    [ok |-> ReadU32(f, off).ok /\ ReadU32(f, off + 4).ok,
     v |-> << ReadU32(f, off).v, ReadU32(f, off + 4).v >>]

\* vio::dbheader::read at offset off: the tag, then read_u8, read_u64 and
\* read_u32.  "some" carries << version, data_section, dim_size >>.
DbHeaderRead(f, off) ==
    LET tag == ReadExact(f, off, Len(PRODUCT))
        version == ReadExact(f, off + Len(PRODUCT), VersionSize)
        data_section == ReadU64(f, off + Len(PRODUCT) + VersionSize)
        dim_size == ReadU32(f, off + Len(PRODUCT) + VersionSize + DataSectionSize)
    IN  IF ~tag.ok THEN Res("io", << >>)
        ELSE IF tag.bytes # PRODUCT THEN Res("parse", << >>)
        ELSE IF ~version.ok \/ ~data_section.ok \/ ~dim_size.ok THEN Res("io", << >>)
        ELSE Res("some", << version.bytes[1], data_section.v, dim_size.v >>)

\* The headers written: versions of one, two and three decimal digits, data
\* sections at and after the end of the header, dimensions of one to three
\* bytes.
Versions == {0, CURRENT_VERSION, 9, 10, 255}
DataSections == {DbHeaderNew(1).data_section + n : n \in 0..MaxLayerBytes}
HeaderDims == {0, 1, 2, 255, 256, 65536}

\* A header in memory and an empty stream.
InitHeader ==
    /\ \E version \in Versions, data_section \in DataSections, dim_size \in HeaderDims :
          /\ handle = [dim_size |-> dim_size, data_section |-> data_section]
          /\ last = [op |-> "header", arg |-> << version, data_section, dim_size >>,
                     res |-> Res("ok", << >>)]
    /\ file = << >>
    /\ cache = [j \in {} |-> << >>]
    /\ pushed = << >>
    /\ removes = 0
    /\ GraphNew
    /\ NoCallers

\* header.write(&mut fd) at the start of the stream
WriteHeader ==
    /\ last.op = "header"
    /\ file' = WriteAt(file, 0, DbHeaderWrite([version |-> last.arg[1],
                                               data_section |-> last.arg[2],
                                               dim_size |-> last.arg[3]]))
    /\ last' = [last EXCEPT !.op = "write"]
    /\ UNCHANGED << handle, cache, pushed, removes, graphvars, lockvars >>

\* vio::dbheader::read(&mut fd) from the start of the stream
ReadHeader ==
    /\ last.op = "write"
    /\ last' = [op |-> "read", arg |-> last.arg, res |-> DbHeaderRead(file, 0)]
    /\ UNCHANGED << storevars, graphvars, lockvars >>

NextHeader == WriteHeader \/ ReadHeader

SpecHeader == InitHeader /\ [][NextHeader]_vars

\* ------------------------------------------- concurrent callers of Database
\* The steps of a Database call that take a lock or work under one, in program
\* order.  get locks handle and loaded_vectors and then works; push and remove
\* lock handle, work on the store, and lock loaded_vectors only on Ok.
ProgramCacheFirst(op) ==
    IF op = "get" THEN << "lock_cache", "lock_handle", "body" >>
    ELSE << "lock_handle", "store", "lock_cache", "body" >>

Program(op) ==
    IF op = "get" THEN << "lock_handle", "lock_cache", "body" >>
    ELSE << "lock_handle", "store", "lock_cache", "body" >>

\* Caller t is inside a call and has neither panicked nor blocked for good.
Running(t) == callers[t].pc > 0 /\ callers[t].res.kind \notin {"hang", "panic"}
\* The step caller t is at.
StepOf(t) == Program(callers[t].op)[callers[t].pc]

\* The guards of caller t are dropped: at a return, and by the unwinding of a
\* panic, which poisons the mutexes it held.
Release(L, t) == [m \in DOMAIN L |-> IF L[m].owner = t THEN [L[m] EXCEPT !.owner = 0] ELSE L[m]]
Unwind(L, t) == [m \in DOMAIN L |-> IF L[m].owner = t THEN [owner |-> 0, poisoned |-> TRUE] ELSE L[m]]

\* The call of caller t ends with result r: "panic" unwinds, "hang" keeps the
\* locks for good, anything else returns.
EndCall(t, r) ==
    /\ callers' = [callers EXCEPT ![t] = IF r.kind \in {"hang", "panic"}
                                         THEN [callers[t] EXCEPT !.res = r]
                                         ELSE Idle]
    /\ locks' = IF r.kind = "panic" THEN Unwind(locks, t)
                ELSE IF r.kind = "hang" THEN locks
                ELSE Release(locks, t)
    /\ last' = [op |-> callers[t].op, arg |-> callers[t].arg, res |-> r]

\* Database::new(name, 1, fd), shared by the callers.
InitLock ==
    /\ StoreNew
    /\ last = [op |-> "new", arg |-> << 1 >>, res |-> Res("some", << >>)]
    /\ GraphNew
    /\ NoCallers

\* Caller t enters db.get(arg), db.push(arg) or db.remove(arg).
Call(t, op, arg) ==
    /\ callers[t] = Idle
    /\ callers' = [callers EXCEPT ![t] = [op |-> op, arg |-> arg, pc |-> 1,
                                          res |-> Res("none", << >>)]]
    /\ UNCHANGED << storevars, last, graphvars, locks >>

\* Acquire with the guard dropped as soon as it is returned.
AcquireDropped(t, m) ==
    /\ locks[m].owner = 0
    /\ IF ~locks[m].poisoned
       THEN /\ locks' = locks
            /\ callers' = [callers EXCEPT ![t].pc = @ + 1]
            /\ UNCHANGED last
       ELSE \E outcome \in {"hang", "panic"} :
              /\ callers' = [callers EXCEPT ![t].res = Res(outcome, << >>)]
              /\ locks' = IF outcome = "hang"
                          THEN [locks EXCEPT ![m] = [owner |-> t, poisoned |-> FALSE]]
                          ELSE Unwind([locks EXCEPT ![m].owner = t], t)
              /\ last' = [op |-> callers[t].op, arg |-> callers[t].arg,
                          res |-> Res(outcome, << >>)]
    /\ UNCHANGED << storevars, graphvars >>

\* Mutex m .lock_auto_clear_poison() by caller t.  On a poisoned mutex lock()
\* returns the guard inside the error, which lives until the closure returns;
\* the closure clears the poison and locks again, on a mutex its own thread
\* holds: that call never returns, it blocks or it panics.
Acquire(t, m) ==
    /\ locks[m].owner = 0
    /\ IF ~locks[m].poisoned
       THEN /\ locks' = [locks EXCEPT ![m].owner = t]
            /\ callers' = [callers EXCEPT ![t].pc = @ + 1]
            /\ UNCHANGED last
       ELSE \E outcome \in {"hang", "panic"} :
              /\ callers' = [callers EXCEPT ![t].res = Res(outcome, << >>)]
              /\ locks' = IF outcome = "hang"
                          THEN [locks EXCEPT ![m] = [owner |-> t, poisoned |-> FALSE]]
                          ELSE Unwind([locks EXCEPT ![m].owner = t], t)
              /\ last' = [op |-> callers[t].op, arg |-> callers[t].arg,
                          res |-> Res(outcome, << >>)]
    /\ UNCHANGED << storevars, graphvars >>

\* self.handle.lock_auto_clear_poison()
LockHandle(t) == Running(t) /\ StepOf(t) = "lock_handle" /\ Acquire(t, "handle")

\* self.loaded_vectors.lock_auto_clear_poison()
LockCache(t) == Running(t) /\ StepOf(t) = "lock_cache" /\ Acquire(t, "loaded_vectors")

\* handle.push(vector) or handle.remove(id) of db.push and db.remove.
StoreOp(t, checks) ==
    LET c == callers[t]
        r == IF c.op = "push" THEN HandlePush(handle, file, c.arg)
             ELSE HandleRemove(handle, file, c.arg[1], checks)
        ok == r.res.kind = "some"
    IN  /\ Running(t) /\ StepOf(t) = "store"
        /\ (c.op = "push" /\ Len(c.arg) = handle.dim_size)
              => SeekCount(handle, file) < MaxPush
        /\ (c.op = "remove" /\ ok) => removes < MaxRemove
        /\ file' = r.file
        /\ pushed' = IF c.op = "push" /\ ok THEN Append(pushed, r.res.val[1]) ELSE pushed
        /\ removes' = IF c.op = "remove" /\ ok THEN removes + 1 ELSE removes
        /\ IF ok
           THEN /\ callers' = [callers EXCEPT ![t].pc = @ + 1, ![t].res = r.res]
                /\ UNCHANGED << locks, last >>
           ELSE EndCall(t, r.res)
        /\ UNCHANGED << handle, cache, graphvars >>

\* The work under both locks: the whole of db.get, and the cache update of
\* db.push and db.remove; then the return.
Body(t, checks) ==
    LET c == callers[t]
        g == DbGet(handle, file, cache, c.arg[1], checks)
    IN  /\ Running(t) /\ StepOf(t) = "body"
        /\ cache' = IF c.op = "get" THEN g.cache
                    ELSE IF c.op = "push" THEN CacheInsert(cache, c.res.val[1], c.arg)
                    ELSE CacheRemove(cache, c.arg[1])
        /\ EndCall(t, IF c.op = "get" THEN g.res ELSE c.res)
        /\ UNCHANGED << handle, file, pushed, removes, graphvars >>

\* The calls made: get and remove of the ids 0 and 1, push of a vector of the
\* right length and of the empty one.
LockCalls ==
    {<< "get", << id >> >> : id \in 0..1} \cup {<< "remove", << id >> >> : id \in 0..1}
        \cup {<< "push", v >> : v \in {<< F32_ONE >>, << >>}}

NextLock ==
    \/ \E t \in Callers, c \in LockCalls : Call(t, c[1], c[2])
    \/ \E t \in Callers : LockHandle(t)
    \/ \E t \in Callers, checks \in Builds : StoreOp(t, checks)
    \/ \E t \in Callers : LockCache(t)
    \/ \E t \in Callers, checks \in Builds : Body(t, checks)

SpecLock == InitLock /\ [][NextLock]_vars

\* ------------------------------------------------------- reopening a file
\* The edges of vio::layer::read from offset off, up to the sentinel a = 0,
\* b = 0: [kind, pos, adj_list], kind "ok" or "io".
RECURSIVE EdgesRead(_, _, _)
EdgesRead(f, off, acc) ==
    LET a == ReadU32(f, off)
        b == ReadU32(f, off + 4)
        distance == ReadU32(f, off + 8)
    IN  IF ~a.ok \/ ~b.ok THEN [kind |-> "io", pos |-> off, adj_list |-> acc]
        ELSE IF a.v = 0 /\ b.v = 0 THEN [kind |-> "ok", pos |-> off + 8, adj_list |-> acc]
        ELSE IF ~distance.ok THEN [kind |-> "io", pos |-> off, adj_list |-> acc]
        ELSE EdgesRead(f, off + 12, Append(acc, << a.v, b.v, distance.v >>))

\* vio::layer::read at offset off: [kind, pos, layer], kind "ok", "eof" (the
\* level 0) or "io" (a short read, also of the level).  The layer is kept as
\* its level and its adjacency list, of which its graph is from_adj_list.
LayerRead(f, off) ==
    LET level == ReadU32(f, off)
        e == EdgesRead(f, off + 4, << >>)
    IN  IF ~level.ok THEN [kind |-> "io", pos |-> off, layer |-> << >>]
        ELSE IF level.v = 0 THEN [kind |-> "eof", pos |-> off + 4, layer |-> << >>]
        ELSE [kind |-> e.kind, pos |-> e.pos,
              layer |-> [level |-> level.v, adj_list |-> e.adj_list]]

\* The loop of Database::read over the layers from offset off.
RECURSIVE LayersRead(_, _, _)
LayersRead(f, off, acc) ==
    LET l == LayerRead(f, off)
    IN  IF l.kind = "io" THEN Res("io", << >>)
        ELSE IF l.kind = "eof" THEN Res("some", acc)
        ELSE LayersRead(f, l.pos, Append(acc, l.layer))

\* Database::read on the bytes f: Err(Header), Err(IO), or the database read,
\* as [dim_size, data_section, layers] with data_section in two halves.
DbRead(f) ==
    LET header == DbHeaderRead(f, 0)
        layers == LayersRead(f, Len(PRODUCT) + VersionSize + DataSectionSize + DimSizeSize,
                             << >>)
    IN  IF header.kind # "some" THEN Res("header", << >>)
        ELSE IF layers.kind # "some" THEN layers
        ELSE Res("some", [dim_size |-> header.val[3], data_section |-> header.val[2],
                          layers |-> layers.val])

\* Database::read(name, fd) on a stream holding the bytes of the file as they
\* are: a second database, which leaves the first as it is.
Reopen ==
    /\ Returned
    /\ last' = [op |-> "read", arg |-> << >>, res |-> DbRead(file)]
    /\ UNCHANGED << storevars, graphvars, lockvars >>

NextReopen == Next \/ Reopen

SpecReopen == Init /\ [][NextReopen]_vars

\* ------------------------------------------------- a stream that can fail
\* The calls VectorHandle::push makes on its stream, in order: 1 the
\* seek(End(-unit)) and 2 the read_u32 of seek_last_id, 3 the seek(End(0)),
\* 4 the write_u32 of the id, 4 + k the write_f32 of component k.
PushCalls(h) == 1..(4 + h.dim_size)

\* The components vio::vector::write has written when the call numbered
\* fail returns an error: those before it.
Written(vector, fail) == SubSeq(vector, 1, fail - 5)

\* VectorHandle::push on a stream whose call numbered fail returns an error
\* and leaves the stream as it was: [res, file].  seek_last_id turns a failed
\* seek or read into None; every later call returns Err(IO) through ?, with
\* what the calls before it have written left in the stream.
HandlePushFailing(h, f, vector, fail) ==
    LET last_id == IF fail \in {1, 2} THEN Res("none", << >>) ELSE SeekLastId(h, f)
        new_id == IF last_id.kind = "none" THEN 0 ELSE last_id.val[1] + 1
    IN  IF Len(vector) # h.dim_size
        THEN [res |-> Res("dimension", << h.dim_size, Len(vector) >>), file |-> f]
        ELSE IF fail \in {3, 4} THEN [res |-> Res("io", << >>), file |-> f]
        ELSE IF fail > 4
        THEN [res |-> Res("io", << >>),
              file |-> WriteAt(f, Len(f), U32Bytes(new_id)
                                            \o VectorBytes(Written(vector, fail)))]
        ELSE [res |-> Res("some", << new_id >>),
              file |-> WriteAt(f, Len(f), U32Bytes(new_id) \o VectorBytes(vector))]

\* Database::push over it: [res, file, cache].
DbPushFailing(h, f, c, vector, fail) ==
    LET r == HandlePushFailing(h, f, vector, fail)
    IN  IF r.res.kind = "some"
        THEN [res |-> r.res, file |-> r.file,
              cache |-> CacheInsert(c, r.res.val[1], vector)]
        ELSE [res |-> r.res, file |-> r.file, cache |-> c]

\* db.push(vector) while the stream fails at the call numbered fail; the
\* stream fails on a file that ends with a whole record, so that a file takes
\* at most one broken push.
PushFailing(vector, fail) ==
    LET r == DbPushFailing(handle, file, cache, vector, fail)
    IN  /\ Returned
        /\ SeekCount(handle, file) < MaxPush
        /\ (Len(file) - handle.data_section) % UnitSizeBytes(handle) = 0
        /\ file' = r.file
        /\ cache' = r.cache
        /\ last' = [op |-> "push", arg |-> vector, res |-> r.res]
        /\ pushed' = IF r.res.kind = "some" THEN Append(pushed, r.res.val[1]) ELSE pushed
        /\ UNCHANGED << handle, removes, graphvars, lockvars >>

NextFailing ==
    \/ Next
    \/ \E vector \in Vectors(handle.dim_size) \cup BadVectors(handle.dim_size),
           fail \in PushCalls(handle) : PushFailing(vector, fail)

SpecFailing == Init /\ [][NextFailing]_vars

\* ------------------------------------------------------- the id arithmetic
\* The specification of the u32 arithmetic on ids alone: a store of two
\* records whose ids are any two ascending u32 values, near 0, near 2^31 and
\* near u32::MAX.  An id is kept as its two 16-bit halves.
IdWords ==
    {<< 0, k >> : k \in 0..MaxIdOffset}
        \cup {<< U16 \div 2 - 1, U16 - k >> : k \in 1..MaxIdOffset}
        \cup {<< U16 \div 2, k >> : k \in 0..MaxIdOffset}
        \cup {<< U16 - 1, U16 - 1 - k >> : k \in 0..MaxIdOffset}

\* write_u32::<BigEndian> and read_u32::<BigEndian> of a u32 in two halves.
IdBytes(x) == << x[1] \div 256, x[1] % 256, x[2] \div 256, x[2] % 256 >>
ReadId(f, off) ==
    << f[off + 1] * 256 + f[off + 2], f[off + 3] * 256 + f[off + 4] >>

\* x + y in u32: the sum modulo 2^32, and whether it overflowed.
U32Add(x, y) ==
    LET lo == x[2] + y[2]
        hi == x[1] + y[1] + (lo \div U16)
    IN  [sum |-> << hi % U16, lo % U16 >>, overflow |-> hi >= U16]

\* x / 2 in u32.
U32Half(x) == << x[1] \div 2, (x[1] % 2) * (U16 \div 2) + (x[2] \div 2) >>

\* (head_id + tail_id) / 2 of seek_item: the addition panics on overflow in a
\* build with overflow checks and wraps in one without.
SeekMidpoint(head_id, tail_id, checks) ==
    LET s == U32Add(head_id, tail_id)
    IN  IF s.overflow /\ checks THEN Res("panic", << >>)
        ELSE Res("some", << U32Half(s.sum) >>)

\* i + 1 of push on the last id i: panics or wraps at u32::MAX.
PushNewId(i, checks) ==
    IF i = U32_MAX /\ checks THEN Res("panic", << >>)
    ELSE Res("some", << U32Inc(i) >>)

InitIds ==
    /\ \E a, b \in IdWords :
          /\ U32Lt(a, b)
          /\ file = WriteAt(<< >>, 0, DbHeaderWrite(DbHeaderNew(1)))
                        \o IdBytes(a) \o U32Bytes(F32_ZERO)
                        \o IdBytes(b) \o U32Bytes(F32_ZERO)
          /\ last = [op |-> "open", arg |-> << a, b >>, res |-> Res("some", << >>)]
    /\ handle = [dim_size |-> DbHeaderNew(1).dim_size,
                 data_section |-> DbHeaderNew(1).data_section]
    /\ cache = [j \in {} |-> << >>]
    /\ pushed = << >>
    /\ removes = 0
    /\ GraphNew
    /\ NoCallers

\* The first round of seek_item for an id that is neither the first nor the
\* last of the store: the midpoint of the two ids it has read.
Midpoint(checks) ==
    LET head_id == ReadId(file, handle.data_section)
        tail_id == ReadId(file, (SeekCount(handle, file) - 1) * UnitSizeBytes(handle)
                                    + handle.data_section)
    IN  /\ last' = [op |-> "midpoint", arg |-> << head_id, tail_id >>,
                    res |-> SeekMidpoint(head_id, tail_id, checks)]
        /\ UNCHANGED << storevars, graphvars, lockvars >>

\* The new id of push: seek_last_id reads the id of the last record.
NewId(checks) ==
    LET i == ReadId(file, Len(file) - UnitSizeBytes(handle))
    IN  /\ last' = [op |-> "new_id", arg |-> << i >>, res |-> PushNewId(i, checks)]
        /\ UNCHANGED << storevars, graphvars, lockvars >>

NextIds ==
    \/ \E checks \in BOOLEAN : Midpoint(checks)
    \/ \E checks \in BOOLEAN : NewId(checks)

SpecIds == InitIds /\ [][NextIds]_vars

\* ------------------------------------------------------------------ claims
\* The records of the data section, in file order.
Records(h, f) ==
    [k \in 1..SeekCount(h, f) |->
        [id |-> StoredIds(h, f)[k], vector |-> StoredVector(h, f, k)]]

IsStored(h, f, id) == id \in Range(StoredIds(h, f))

\* The vector of the first record whose id is id.
VectorOfId(h, f, id) ==
    LET k == CHOOSE i \in 1..SeekCount(h, f) :
                 /\ StoredIds(h, f)[i] = id
                 /\ \A j \in 1..(i - 1) : StoredIds(h, f)[j] # id
    IN  StoredVector(h, f, k)

RECURSIVE IsSubseq(_, _)
IsSubseq(a, b) ==
    IF a = << >> THEN TRUE
    ELSE IF b = << >> THEN FALSE
    ELSE IF Head(a) = Head(b) THEN IsSubseq(Tail(a), Tail(b))
    ELSE IsSubseq(a, Tail(b))

MaxOf(S) == CHOOSE x \in S : \A y \in S : y <= x

\* C1: after any sequence of push and remove calls the record ids of the data
\* section, read in file order, are strictly ascending.
C1_IdsAscending ==
    \A k \in 1..(SeekCount(handle, file) - 1) :
        StoredIds(handle, file)[k] < StoredIds(handle, file)[k + 1]

\* C2: for every stored id, remove(id) returns the vector stored with that id,
\* and afterwards get(id) returns not found.
C2_RemoveReturnsAndForgets ==
    [][(last'.op = "remove" /\ IsStored(handle, file, last'.arg[1]))
          => /\ last'.res = Res("some", VectorOfId(handle, file, last'.arg[1]))
             /\ \A checks \in BOOLEAN :
                   DbGet(handle, file', cache', last'.arg[1], checks).res
                       = Res("none", << >>)]_vars

\* C3: a successful remove(id) leaves every other record untouched: the records
\* with another id are still in the data section, with their ids and vectors
\* and in their order, and a get of each from the file returns its vector.
C3_RemoveKeepsOthers ==
    [][(last'.op = "remove" /\ last'.res.kind = "some")
          => LET id == last'.arg[1]
                 Other(r) == r.id # id
                 survivors == SelectSeq(Records(handle, file), Other)
             IN  /\ IsSubseq(survivors, Records(handle, file'))
                 /\ \A k \in DOMAIN survivors, checks \in BOOLEAN :
                       HandleGet(handle, file', survivors[k].id, checks)
                           = Res("some", survivors[k].vector)]_vars

\* C4: a push of a vector of dim_size components succeeds, and a get of the id
\* it returned returns that vector.
C4_GetAfterPush ==
    (last.op = "push" /\ Len(last.arg) = handle.dim_size)
        => /\ last.res.kind = "some"
           /\ \A checks \in BOOLEAN :
                 DbGet(handle, file, cache, last.res.val[1], checks).res
                     = Res("some", last.arg)

\* A push has stored a vector in a store that a remove has already shifted.
C4_Witness ==
    /\ last.op = "push"
    /\ last.res.kind = "some"
    /\ removes > 0
    /\ Len(pushed) > 1

\* C5: on a store whose records are in strictly ascending id order, a get of a
\* stored id that misses the cache returns the vector stored with that id.
C5_LookupReturnsStored ==
    (last.op = "get" /\ IsStored(handle, file, last.arg[1]))
        => last.res = Res("some", VectorOfId(handle, file, last.arg[1]))

\* C6: the first push on an empty store returns 0, and each later successful
\* push returns the greatest id returned before plus one.
C6_PushReturnsNextId ==
    [][(last'.op = "push" /\ last'.res.kind = "some")
          => last'.res.val[1]
                 = IF pushed = << >> THEN 0 ELSE MaxOf(Range(pushed)) + 1]_vars

\* C7: no two successful push calls return the same id.
C7_IdsNeverReused ==
    \A i, j \in DOMAIN pushed : i # j => pushed[i] # pushed[j]

\* C8: remove of an id that is not stored returns not found and leaves the
\* file and the cache as they were.
C8_RemoveMissingIsNoop ==
    [][(last'.op = "remove" /\ ~IsStored(handle, file, last'.arg[1]))
          => /\ last'.res = Res("none", << >>)
             /\ file' = file
             /\ cache' = cache]_vars

\* C9: count() is 0 on a new database, a successful push raises it by one and
\* a successful remove lowers it by one.
C9_CountTracksRecords ==
    [][/\ last'.op = "new" => HandleCount(handle, file') = 0
       /\ (last'.op = "push" /\ last'.res.kind = "some")
             => HandleCount(handle, file') = HandleCount(handle, file) + 1
       /\ (last'.op = "remove" /\ last'.res.kind = "some")
             => HandleCount(handle, file') = HandleCount(handle, file) - 1]_vars

\* C10: a push of a vector whose length is not dim_size fails with the
\* Dimension error that carries dim_size and the length, and leaves the file
\* and the cache as they were.
C10_BadDimensionRejected ==
    [][(last'.op = "push" /\ Len(last'.arg) # handle.dim_size)
          => /\ last'.res = Res("dimension", << handle.dim_size, Len(last'.arg) >>)
             /\ file' = file
             /\ cache' = cache
             /\ pushed' = pushed]_vars

\* A push of a wrong length has been refused by a store that holds records.
C10_Witness ==
    /\ last.op = "push"
    /\ last.res.kind = "dimension"
    /\ Len(last.arg) # handle.dim_size
    /\ SeekCount(handle, file) > 0

\* C11: move_content with a negative offset -k, started at position p with
\* k <= p and the L bytes [p, p+L) inside the stream, returns Ok and leaves at
\* [p-k, p-k+L) the L bytes that were at [p, p+L), for every chunk size >= 1.
C11_MoveBackwardCopies ==
    [][(/\ last'.op = "move_content"
        /\ last'.arg[3] < 0
        /\ last'.arg[1] + last'.arg[3] >= 0
        /\ last'.arg[1] + last'.arg[2] <= Len(file))
       => (/\ last'.res.kind = "ok"
           /\ SubSeq(file', last'.arg[1] + last'.arg[3] + 1,
                     last'.arg[1] + last'.arg[3] + last'.arg[2])
                = SubSeq(file, last'.arg[1] + 1, last'.arg[1] + last'.arg[2]))]_vars

\* C12: move_content with an offset k >= 0, started at position p with the L
\* bytes [p, p+L) inside the stream, returns Ok and leaves at [p+k, p+k+L) the
\* L bytes that were at [p, p+L), for every chunk size >= 1.
C12_MoveForwardCopies ==
    [][(/\ last'.op = "move_content"
        /\ last'.arg[3] >= 0
        /\ last'.arg[1] + last'.arg[2] <= Len(file))
       => (/\ last'.res.kind = "ok"
           /\ SubSeq(file', last'.arg[1] + last'.arg[3] + 1,
                     last'.arg[1] + last'.arg[3] + last'.arg[2])
                = SubSeq(file, last'.arg[1] + 1, last'.arg[1] + last'.arg[2]))]_vars

\* C13: on a proximity graph, connect(a, b, d) with a, b < len and d a distance
\* below infinity returns Ok, and distance(a, b) and distance(b, a) then both
\* return d, whatever the pair held before.
C13_ConnectThenDistance ==
    [][(/\ last'.op = "connect"
        /\ U32Lt(last'.arg[1], U32Of(graph.len))
        /\ U32Lt(last'.arg[2], U32Of(graph.len))
        /\ last'.arg[3] < F32_INFINITY)
       => (/\ last'.res.kind = "ok"
           /\ NdGetVertice(graph', last'.arg[1], last'.arg[2], TRUE)
                = Res("some", << last'.arg[3] >>)
           /\ NdGetVertice(graph', last'.arg[2], last'.arg[1], TRUE)
                = Res("some", << last'.arg[3] >>))]_vars

\* C14: connect(a, b, d) and distance(a, b) with a >= len or b >= len fail with
\* the out-of-bounds condition, whatever the capacity is, and leave the matrix,
\* len and capacity as they were.
C14_OutOfBoundsFails ==
    [][(/\ last'.op \in {"connect", "get_vertice"}
        /\ \/ U32Ge(last'.arg[1], U32Of(graph.len))
           \/ U32Ge(last'.arg[2], U32Of(graph.len)))
       => (/\ last'.res.kind = "exceed"
           /\ graph' = graph)]_vars

\* C15: push_many(count) with count >= 1 adds count to len, returns the new
\* len - 1, raises a capacity below len + count to len + count and leaves any
\* other capacity alone; and len <= capacity after it.
C15_GrowByDeficit ==
    [][last'.op = "push_many"
       => (/\ graph'.len = graph.len + last'.arg[1]
           /\ last'.res = Res("some", << graph'.len - 1 >>)
           /\ graph'.capacity = IF graph.capacity < graph.len + last'.arg[1]
                                THEN graph.len + last'.arg[1]
                                ELSE graph.capacity
           /\ graph'.len <= graph'.capacity)]_vars

\* On a graph made with capacity 2, a push_many(1) has found the capacity
\* sufficient and a push_many(2) has then found it short by one: the matrix
\* has its 2 initial rows and 3 appended ones.
C15_Witness ==
    /\ last.op = "push_many"
    /\ last.arg = << 2 >>
    /\ graph.len = 3
    /\ graph.capacity = 3
    /\ Len(graph.adjacent_matrix) = 5

\* C16: on a scattered graph, connect(x, y, d) with two external ids not used
\* before and d below infinity returns Ok, and distance(x, y) then returns d.
C16_ScatteredConnect ==
    [][(/\ last'.op = "connect"
        /\ last'.arg[1] \notin connected
        /\ last'.arg[2] \notin connected
        /\ last'.arg[3] < F32_INFINITY)
       => (/\ last'.res.kind = "ok"
           /\ AcGetVertice(graph', mapping', last'.arg[1], last'.arg[2])
                = Res("some", << last'.arg[3] >>))]_vars

C18_AbsentIdQueries ==
    [][/\ (last'.op \in {"get_neighbors", "get_vertices"}
            /\ last'.arg[1] \notin DOMAIN mapping)
           => last'.res = Res("some", {})
       /\ (last'.op = "get_vertice"
            /\ (last'.arg[1] \notin DOMAIN mapping \/ last'.arg[2] \notin DOMAIN mapping))
           => (/\ last'.res.kind = "nonexistence"
               /\ last'.res.val[1] \in {last'.arg[1], last'.arg[2]} \ DOMAIN mapping)
       /\ last'.op \in {"get_neighbors", "get_vertices", "get_vertice"}
           => (graph' = graph /\ mapping' = mapping)]_vars

\* get_vertice has failed for a pair whose first id is mapped and whose second
\* is absent.
C18_Witness ==
    /\ last.op = "get_vertice"
    /\ last.res = Res("nonexistence", << last.arg[2] >>)
    /\ last.arg[1] \in DOMAIN mapping
    /\ last.arg[2] \notin DOMAIN mapping

\* C19: the bytes that the header write produces are the tag, the version as
\* one byte, data_section as a big-endian u64 and dim_size as a big-endian u32,
\* and the header read from the same position returns the version, the
\* data_section and the dim_size that were written.
C19_HeaderRoundTrip ==
    last.op = "read"
        => /\ file = PRODUCT \o << last.arg[1] >> \o U64Bytes(last.arg[2])
                        \o U32Bytes(last.arg[3])
           /\ last.res = Res("some", << last.arg[1], << 0, last.arg[2] >>, last.arg[3] >>)

\* Caller t is at the lock of mutex m and has not got it.
WaitsFor(t, m) ==
    /\ Running(t)
    /\ StepOf(t) = (IF m = "handle" THEN "lock_handle" ELSE "lock_cache")

\* C20: in get, push and remove the store lock is taken before the cache lock:
\* whoever holds the cache lock holds the store lock, nobody asks for the store
\* lock while holding the cache lock, and no two callers wait for each other's
\* lock.
C20_StoreLockFirst ==
    /\ \A t \in Callers :
          /\ locks.loaded_vectors.owner = t => locks.handle.owner = t
          /\ WaitsFor(t, "handle") => locks.loaded_vectors.owner # t
    /\ ~\E t \in Callers, u \in Callers, m \in DOMAIN locks, n \in DOMAIN locks :
          /\ t # u
          /\ WaitsFor(t, m) /\ locks[m].owner = u
          /\ WaitsFor(u, n) /\ locks[n].owner = t

\* One caller holds both locks while another, inside push, holds none and
\* waits for the store lock.
C20_Witness ==
    \E t \in Callers, u \in Callers :
        /\ locks.handle.owner = t
        /\ locks.loaded_vectors.owner = t
        /\ Running(t)
        /\ callers[u].op = "push"
        /\ WaitsFor(u, "handle")

\* C21: when a caller takes, with lock_auto_clear_poison, a mutex that a
\* panicked holder left poisoned, the poison is cleared, the caller owns the
\* mutex and goes on to its next step: it neither panics nor blocks for good.
C21_PoisonRecovery ==
    [][\A t \in Callers, m \in DOMAIN locks :
          (/\ WaitsFor(t, m)
           /\ locks[m].owner = 0
           /\ locks[m].poisoned
           /\ callers'[t] # callers[t])
          => (/\ locks'[m] = [owner |-> t, poisoned |-> FALSE]
              /\ callers'[t].pc = callers[t].pc + 1
              /\ callers'[t].res.kind \notin {"hang", "panic"})]_vars

\* C22: on a store whose ids are strictly ascending, contiguous or with gaps,
\* the lookup of any id, stored or not, returns: no round of the search loop
\* leaves the index range [head, tail] as it found it.
C22_LookupTerminates ==
    (last.op = "get" /\ SeekCount(handle, file) > 0) => last.res.kind # "hang"

\* C23: on a store without records, get(id) and remove(id) return Ok(None) for
\* every id and leave the file as it was.
C23_EmptyStoreNotFound ==
    [][(last'.op \in {"get", "remove"} /\ SeekCount(handle, file) = 0)
       => (last'.res = Res("none", << >>) /\ file' = file)]_vars

\* C24: on a graph made by new or with_capacity and grown by push_many, every
\* pair a # b below len has its cell at (max(a, b), min(a, b)): connect(a, b, d)
\* returns Ok, get_vertice(a, b) then returns d, and get_vertice of every other
\* pair returns what it returned before.
C24_OneCellPerPair ==
    [][(/\ last'.op = "connect"
        /\ last'.arg[1] # last'.arg[2]
        /\ U32Lt(last'.arg[1], U32Of(graph.len))
        /\ U32Lt(last'.arg[2], U32Of(graph.len))
        /\ last'.arg[3] < F32_INFINITY)
       => (/\ last'.res.kind = "ok"
           /\ NdGetVertice(graph', last'.arg[1], last'.arg[2], TRUE)
                = Res("some", << last'.arg[3] >>)
           /\ \A x \in 0..(graph.len - 1), y \in 0..(graph.len - 1) :
                 {U32Of(x), U32Of(y)} # {last'.arg[1], last'.arg[2]}
                 => NdGetVertice(graph', U32Of(x), U32Of(y), TRUE)
                      = NdGetVertice(graph, U32Of(x), U32Of(y), TRUE))]_vars

\* The edges of the list lie on different pairs of nodes.
DistinctPairs(adj_list) ==
    \A i \in DOMAIN adj_list, j \in DOMAIN adj_list :
        {adj_list[i][1], adj_list[i][2]} = {adj_list[j][1], adj_list[j][2]} => i = j

\* C25: from_adj_list of a list of at least one edge, no two on the same
\* pair, builds a graph with len = capacity = the largest node id of the list
\* plus one, in which get_vertice(a, b) returns d for every edge (a, b, d) of
\* the list and None for every pair below len that the list does not name.
C25_FromAdjList ==
    (last.op = "from_adj_list" /\ last.arg # << >> /\ DistinctPairs(last.arg))
    => LET adj_list == last.arg
           top == MaxOf({adj_list[i][1] : i \in DOMAIN adj_list}
                          \cup {adj_list[i][2] : i \in DOMAIN adj_list})
       IN  /\ graph.len = top + 1
           /\ graph.capacity = top + 1
           /\ \A i \in DOMAIN adj_list :
                 NdGetVertice(graph, U32Of(adj_list[i][1]), U32Of(adj_list[i][2]), TRUE)
                    = Res("some", << adj_list[i][3] >>)
           /\ \A x \in 0..top, y \in 0..top :
                 (\A i \in DOMAIN adj_list : {x, y} # {adj_list[i][1], adj_list[i][2]})
                 => NdGetVertice(graph, U32Of(x), U32Of(y), TRUE) = Res("none", << >>)

\* C26: get_neighbors(x) of a node x below len is the set of the nodes n below
\* len for which get_vertice(x, n) returns a distance.
C26_NeighborsUndirected ==
    [][(last'.op = "get_neighbors" /\ U32Lt(last'.arg[1], U32Of(graph.len)))
       => last'.res
            = Res("some", {n \in 0..(graph.len - 1) :
                             NdGetVertice(graph, last'.arg[1], U32Of(n), TRUE).kind
                                = "some"})]_vars

\* C27: get_vertices(x) of a node x below len returns, without a panic, the
\* set of the pairs (n, d) with get_vertice(x, n) returning d; for x not below
\* len it returns the empty set.
C27_WeightedNeighbors ==
    [][last'.op = "get_vertices"
       => last'.res
            = IF U32Lt(last'.arg[1], U32Of(graph.len))
              THEN Res("some",
                       {<< n, NdGetVertice(graph, last'.arg[1], U32Of(n), TRUE).val[1] >> :
                          n \in {m \in 0..(graph.len - 1) :
                                    NdGetVertice(graph, last'.arg[1], U32Of(m), TRUE).kind
                                       = "some"}})
              ELSE Res("some", {})]_vars

\* C28: Database::read accepts the file of a database made by new and changed
\* by push and remove calls, none included, and returns a database with no
\* layers and with the dim_size and the data_section of the first, so that
\* its get finds the records where the first finds them.
C28_ReopenRoundTrip ==
    [][last'.op = "read"
       => (/\ last'.res.kind = "some"
           /\ last'.res.val.layers = << >>
           /\ last'.res.val.dim_size = handle.dim_size
           /\ last'.res.val.data_section = << 0, handle.data_section >>)]_vars

\* C29: every entry (id, v) of the cache agrees with the file: the data
\* section holds a record with that id whose vector is v.
C29_CacheCoherent ==
    \A id \in DOMAIN cache :
        \E k \in 1..SeekCount(handle, file) :
            /\ Records(handle, file)[k].id = id
            /\ Records(handle, file)[k].vector = cache[id]

\* C30: no get, push or remove changes a byte of the file below data_section.
C30_HeaderImmutable ==
    [][last'.op \in {"get", "push", "remove"}
       => SubSeq(file', 1, handle.data_section) = SubSeq(file, 1, handle.data_section)]_vars

\* C31: a push that returns an error, for the length of its vector or for a
\* failed call on its stream, leaves the file as it was: no byte of a record
\* is appended.
C31_PushAllOrNothing ==
    [][(last'.op = "push" /\ last'.res.kind \in {"dimension", "io"}) => file' = file]_vars

\* Caller t is at a step that seeks, reads or writes the stream of the store:
\* handle.push or handle.remove, or the body of db.get.
TouchesStore(t) ==
    /\ Running(t)
    /\ \/ StepOf(t) = "store"
       \/ StepOf(t) = "body" /\ callers[t].op = "get"

\* C32: a caller that works on the store holds the store lock at that step,
\* and while a caller holds the store lock no step of another caller changes
\* the file or the cache: the store work of two calls never interleaves, and
\* the calls take effect one after the other.
C32_StoreExclusive ==
    [][\A t \in Callers :
          /\ (TouchesStore(t) /\ callers'[t] # callers[t]) => locks.handle.owner = t
          /\ (locks.handle.owner = t /\ callers'[t] = callers[t])
                => (file' = file /\ cache' = cache)]_vars

\* One caller has pushed under the store lock and not yet returned while
\* another waits for that lock.
C32_Witness ==
    \E t, u \in Callers :
        /\ t # u
        /\ locks.handle.owner = t
        /\ callers[t].op = "push" /\ callers[t].pc = 3
        /\ WaitsFor(u, "handle")

\* floor((x + y) / 2) of two u32 values, without a 32-bit intermediate.
TrueMidpoint(x, y) ==
    LET s == U32Add(x, y)
        h == U32Half(s.sum)
    IN  IF s.overflow THEN << h[1] + U16 \div 2, h[2] >> ELSE h

\* C33: the midpoint seek_item computes of two stored ids is their true
\* midpoint, and the id push computes from the last id is greater than it, for
\* every u32 value of the ids.
C33_IdArithmeticExact ==
    /\ last.op = "midpoint"
          => last.res = Res("some", << TrueMidpoint(last.arg[1], last.arg[2]) >>)
    /\ last.op = "new_id"
          => (last.res.kind = "some" /\ U32Lt(last.arg[1], last.res.val[1]))

====
